---- MODULE Spec2Model ----
(***************************************************************************)
(* State-machine model of the CMF estimator of models/cmf.py: the          *)
(* constructor, fit, transform and the update loop _update with its four   *)
(* phases, over the process-wide numpy random generator.                   *)
(*                                                                         *)
(* Numbers.  The arrays of the program hold IEEE doubles.  Sums, products, *)
(* differences, broadcasting and the shapes of the arrays are modelled     *)
(* exactly, over the integers.  The transcendental functions of numpy and  *)
(* scipy (exp, log, psi, gammaln, norm.pdf), true division and the random  *)
(* distributions have no finite exact model; each is an integer-valued     *)
(* operator with the same argument structure (Exp, Log, Psi, GammaLn,      *)
(* LogNormPdf, Div, DrawGamma, DrawNormal, DrawUniform).  The evidence     *)
(* bound that drives the stopping rule is either evaluated with these      *)
(* operators (fp = "finite") or is any IEEE value, infinities and NaN      *)
(* included (fp = "any"), which covers overflow, underflow and NaN         *)
(* propagation in the floating-point evaluation.                           *)
(***************************************************************************)
EXTENDS Integers, Sequences, FiniteSets, TLC

(* ------------------------------ bounds ------------------------------- *)
\* largest num_steps and max_iters a configuration may have
MaxSteps == 1
MaxIters == 2
\* number of fit/transform calls made in one run of the process
MaxCalls == 2
\* magnitude at which a stored latent position saturates
FMax == 50

(* --------------------------- small helpers --------------------------- *)
RECURSIVE SumF(_, _)
\* sum of f[1..n]
SumF(f, n) == IF n = 0 THEN 0 ELSE f[n] + SumF(f, n - 1)

NRows(M) == Cardinality(DOMAIN M)
NCols(M) == Cardinality(DOMAIN M[1])
Shape(M) == <<NRows(M), NCols(M)>>
Zeros(R, C) == [r \in 1..R |-> [c \in 1..C |-> 0]]
AbsI(x) == IF x < 0 THEN -x ELSE x

(* ------------------- numpy / scipy scalar functions ------------------ *)
\* np.exp: positive and nondecreasing (powers of two, saturating)
Exp(x) == CASE x <= 0 -> 1 [] x = 1 -> 2 [] x = 2 -> 4 [] OTHER -> 8

RECURSIVE Log(_)
\* np.log: integer logarithm
Log(x) == IF x <= 1 THEN 0 ELSE 1 + Log(x \div 2)

\* scipy.special.psi
Psi(x) == Log(x) - 1

RECURSIVE GammaLn(_)
\* scipy.special.gammaln: log((x-1)!) = sum of log(j), j < x
GammaLn(x) == IF x <= 2 THEN 0 ELSE Log(x - 1) + GammaLn(x - 1)

\* np.log(norm.pdf(x, 0, s))
LogNormPdf(x, s) == 0 - ((x * x) \div (2 * s * s)) - Log(s) - 1

\* true division of two arrays' entries
Div(a, b) == a \div b

\* a stored double: finite range
Fl(x) == IF x > FMax THEN FMax ELSE IF x < 0 - FMax THEN 0 - FMax ELSE x

(* ------------------ the process-wide random generator ---------------- *)
RngMod == 4
RngMul == 5
RngInc == 3

\* np.random.seed(random_state): the generator's state after seeding
SeedState(rs) == rs % RngMod

RECURSIVE Adv(_, _)
\* the generator's state after n draws
Adv(s, n) == IF n = 0 THEN s ELSE Adv((RngMul * s + RngInc) % RngMod, n - 1)

\* one np.random.gamma(smoothness, 1/smoothness) draw: strictly positive
DrawGamma(s) == 1 + (s % 3)
\* one coordinate of np.random.multivariate_normal(0, cov)
DrawNormal(s) == (s % 3) - 1
\* np.random.random() * D
DrawUniform(s, D) == s % D

\* R x C arrays filled in row-major order from generator state s
GammaMat(s, R, C) ==
    [r \in 1..R |-> [c \in 1..C |-> DrawGamma(Adv(s, (r - 1) * C + (c - 1)))]]
NormalMat(s, R, C) ==
    [r \in 1..R |-> [c \in 1..C |-> DrawNormal(Adv(s, (r - 1) * C + (c - 1)))]]

(* --------------------------- IEEE doubles ---------------------------- *)
\* the bound and the relative change: finite rationals n/d, infinities, NaN
Fin(n) == [k |-> "fin", n |-> n, d |-> 1]
PInf == [k |-> "pinf", n |-> 0, d |-> 1]
NInf == [k |-> "ninf", n |-> 0, d |-> 1]
NaN == [k |-> "nan", n |-> 0, d |-> 1]

\* a - b  (a, b integers or infinities or NaN)
FSub(a, b) ==
    CASE a.k = "nan" \/ b.k = "nan" -> NaN
      [] a.k = "fin" /\ b.k = "fin" -> Fin(a.n - b.n)
      [] a.k = b.k -> NaN
      [] a.k = "pinf" \/ b.k = "ninf" -> PInf
      [] OTHER -> NInf

\* abs(a)
FAbs(a) ==
    CASE a.k = "nan" -> NaN
      [] a.k = "fin" -> Fin(AbsI(a.n))
      [] OTHER -> PInf

\* a / b for b = abs(..) >= 0: numpy division, no exception on a zero divisor
FDiv(a, b) ==
    CASE a.k = "nan" \/ b.k = "nan" -> NaN
      [] b.k = "pinf" -> IF a.k = "fin" THEN Fin(0) ELSE NaN
      [] b.n = 0 ->
           (CASE a.k = "pinf" -> PInf
              [] a.k = "ninf" -> NInf
              [] a.n > 0 -> PInf
              [] a.n < 0 -> NInf
              [] OTHER -> NaN)
      [] a.k = "fin" -> [k |-> "fin", n |-> a.n, d |-> b.n]
      [] OTHER -> a

\* a < b: false as soon as one side is NaN
FLess(a, b) ==
    CASE a.k = "nan" \/ b.k = "nan" -> FALSE
      [] a.k = "pinf" \/ b.k = "ninf" -> FALSE
      [] a.k = "ninf" \/ b.k = "pinf" -> TRUE
      [] OTHER -> a.n * b.d < b.n * a.d

(* ----------------------- the model's arithmetic ---------------------- *)
\* _compute_expectations(a, b), entrywise on V x K arrays
ComputeEx(a, b) == [v \in DOMAIN a |-> [k \in DOMAIN a[v] |-> Div(a[v][k], b[v][k])]]
ComputeElogx(a, b) ==
    [v \in DOMAIN a |-> [k \in DOMAIN a[v] |-> Psi(a[v][k]) - Log(b[v][k])]]

\* np.dot(l, u.T): K x D
DotLU(l, u) ==
    [k \in DOMAIN l |-> [d \in DOMAIN u |->
        SumF([j \in DOMAIN l[k] |-> l[k][j] * u[d][j]], NCols(l))]]

\* theta = alpha[np.newaxis, :] + np.dot(l, u.T): K x D
Theta(alpha, l, u) ==
    [k \in DOMAIN l |-> [d \in DOMAIN u |-> alpha[d] + DotLU(l, u)[k][d]]]

\* _auxsum(theta) = np.dot(np.exp(Elogb), np.exp(theta)): V x D
Auxsum(Elogb, theta) ==
    [v \in DOMAIN Elogb |-> [d \in DOMAIN theta[1] |->
        SumF([k \in DOMAIN theta |-> Exp(Elogb[v][k]) * Exp(theta[k][d])],
             NRows(theta))]]

\* sum of a V x D array over both axes
SumVD(A) == SumF([v \in DOMAIN A |-> SumF(A[v], NCols(A))], NRows(A))

\* _gamma_term(a, b, shape, rate, Ex, Elogx) with scalar a, b
GammaTerm(a, b, shape, rate, Ex, Elogx) ==
    SumVD([v \in DOMAIN shape |-> [k \in DOMAIN shape[v] |->
        (a - shape[v][k]) * Elogx[v][k] - (b - rate[v][k]) * Ex[v][k]
        + GammaLn(shape[v][k]) - shape[v][k] * Log(rate[v][k])]])

\* _bound(X) on the fields of object o
Bound(o, X) ==
    LET V == NRows(X)
        theta == Theta(o.alpha, o.l, o.u)
        aux == Auxsum(o.Elogb, theta)
        EbTheta == [v \in DOMAIN X |-> [d \in DOMAIN X[v] |->
                      SumF([k \in DOMAIN theta |-> o.Eb[v][k] * theta[k][d]],
                           NRows(theta))]]
    IN  SumVD([v \in DOMAIN X |-> [d \in DOMAIN X[v] |->
              X[v][d] * Log(aux[v][d]) - EbTheta[v][d]]])
        + GammaTerm(o.hp.c0, Div(o.hp.c0, V), o.g, o.h, o.Eb, o.Elogb)
        + SumVD([k \in DOMAIN o.l |-> [j \in DOMAIN o.l[k] |->
              LogNormPdf(o.l[k][j], o.hp.sigma)]])
        + SumVD([d \in DOMAIN o.u |-> [j \in DOMAIN o.u[d] |->
              LogNormPdf(o.u[d][j], 1)]])

\* _update_alpha(X): the new alpha, length D
NewAlpha(o, X) ==
    [d \in DOMAIN X[1] |->
        Log(SumF([v \in DOMAIN X |-> X[v][d]], NRows(X)))
        - Log(SumVD([v \in DOMAIN o.Eb |-> [k \in DOMAIN o.Eb[v] |->
              o.Eb[v][k] * Exp(DotLU(o.l, o.u)[k][d])]]))]

\* mutant of UpdateBetaObj: g and h assigned, the expectations left stale
UpdateBetaObj_Stale(o, X) ==
    LET V == NRows(X)
        theta == Theta(o.alpha, o.l, o.u)
        aux == Auxsum(o.Elogb, theta)
    IN  [o EXCEPT !.g = [v \in DOMAIN X |-> [k \in DOMAIN theta |->
                           Fl(Div(o.hp.c0, V) + Exp(o.Elogb[v][k])
                              * SumF([d \in DOMAIN X[v] |->
                                       Div(X[v][d], aux[v][d]) * Exp(theta[k][d])],
                                     NCols(X)))]],
                  !.h = [v \in DOMAIN X |-> [k \in DOMAIN theta |->
                           Fl(o.hp.c0 + SumF([d \in DOMAIN X[v] |-> Exp(theta[k][d])],
                                             NCols(X)))]]]

\* _update_beta(X): the object with g, h replaced and Eb, Elogb recomputed
UpdateBetaObj(o, X) ==
    LET V == NRows(X)
        theta == Theta(o.alpha, o.l, o.u)
        aux == Auxsum(o.Elogb, theta)
        newg == [v \in DOMAIN X |-> [k \in DOMAIN theta |->
                   Fl(Div(o.hp.c0, V) + Exp(o.Elogb[v][k])
                      * SumF([d \in DOMAIN X[v] |->
                               Div(X[v][d], aux[v][d]) * Exp(theta[k][d])],
                             NCols(X)))]]
        newh == [v \in DOMAIN X |-> [k \in DOMAIN theta |->
                   Fl(o.hp.c0 + SumF([d \in DOMAIN X[v] |-> Exp(theta[k][d])],
                                     NCols(X)))]]
    IN  [o EXCEPT !.g = newg, !.h = newh,
                  !.Eb = ComputeEx(newg, newh),
                  !.Elogb = ComputeElogx(newg, newh)]

\* mutant of ThetaSrcL: rows already handled in this inner step are read
\* from l_temp (an in-place, sequential update)
ThetaSrcL_InPlace(l, l_temp, k) ==
    [r \in DOMAIN l |-> IF r < k THEN l_temp[r] ELSE l[r]]

\* _update_ql, line 140: the l that theta of row k is computed from.  self.l
\* is assigned only after the loop over k (line 150); the rows already
\* handled are in l_temp.
ThetaSrcL(l, l_temp, k) == l

\* _update_ql, lines 142-145: the V x D likelihood term of row k
LikL(o, X, theta, k) ==
    LET aux == Auxsum(o.Elogb, theta)
    IN  [v \in DOMAIN X |-> [d \in DOMAIN X[v] |->
            Div(X[v][d], aux[v][d]) * Exp(o.Elogb[v][k]) * Exp(theta[k][d])
            - o.Eb[v][k] * Exp(theta[k][d])]]

\* the likelihood term of row k times u, summed over (v, d): length m
DataGradL(lik, u) ==
    [j \in DOMAIN u[1] |->
        SumVD([v \in DOMAIN lik |-> [d \in DOMAIN lik[v] |-> lik[v][d] * u[d][j]]])]

\* _update_ql, line 146: np.sum(grad[:, :, newaxis] * u - l[k, :], axis=(0,1))
GradL(lik, u, lk) ==
    [j \in DOMAIN lk |->
        SumVD([v \in DOMAIN lik |-> [d \in DOMAIN lik[v] |->
            lik[v][d] * u[d][j] - lk[j]]])]

\* _update_ql, lines 137-148: the row written to l_temp[k]
NewRowL(o, X, l_temp, k) ==
    LET theta == Theta(o.alpha, ThetaSrcL(o.l, l_temp, k), o.u)
        grad == GradL(LikL(o, X, theta, k), o.u, o.l[k])
    IN  [j \in DOMAIN o.l[k] |-> Fl(o.l[k][j] + o.hp.step_size * grad[j])]

\* _update_qu, lines 161-164: the V x K likelihood term of column d
LikU(o, X, theta, d) ==
    LET aux == Auxsum(o.Elogb, theta)
    IN  [v \in DOMAIN X |-> [k \in DOMAIN theta |->
            Div(X[v][d], aux[v][d]) * Exp(o.Elogb[v][k]) * Exp(theta[k][d])
            - o.Eb[v][k] * Exp(theta[k][d])]]

\* the likelihood term of column d times l, summed over (v, k): length m
DataGradU(lik, l) ==
    [j \in DOMAIN l[1] |->
        SumVD([v \in DOMAIN lik |-> [k \in DOMAIN lik[v] |-> lik[v][k] * l[k][j]]])]

\* _update_qu, line 165: np.sum(grad[:, :, newaxis] * l - u[d, :], axis=(0,1))
GradU(lik, l, ud) ==
    [j \in DOMAIN ud |->
        SumVD([v \in DOMAIN lik |-> [k \in DOMAIN lik[v] |->
            lik[v][k] * l[k][j] - ud[j]]])]

\* _update_qu, lines 159-167: the row written to u_temp[d]
NewRowU(o, X, d) ==
    LET theta == Theta(o.alpha, o.l, o.u)
        grad == GradU(LikU(o, X, theta, d), o.l, o.u[d])
    IN  [j \in DOMAIN o.u[d] |-> Fl(o.u[d][j] + o.hp.step_size * grad[j])]

(* ------------------------------ inputs ------------------------------- *)
\* the CMF objects a process may create
Names == {"A", "B"}

\* count matrices passed as X: shapes (1,2) and (2,1)
XSet == { << <<8, 16>> >>, << <<16>>, <<4>> >> }

\* tolerance values: 1/2, and a tolerance above every change
TolSet == { [k |-> "fin", n |-> 1, d |-> 2], PInf }

\* random_state arguments: two integers and None
RandomStates == { [int |-> TRUE, v |-> 1], [int |-> TRUE, v |-> 2],
                  [int |-> FALSE, v |-> 0] }

\* constructor arguments other than random_state (step_size, c0 and sigma
\* are passed explicitly, as whole numbers)
HyperSet ==
    [K : {1, 2}, m : {1, 2}, num_steps : 0..MaxSteps, max_iters : 0..MaxIters,
     tolerance : TolSet, step_size : {1}, c0 : {2}, sigma : {1}]

\* values the evidence bound may evaluate to when fp = "any"
BoundVals == { Fin(0 - 4), Fin(0 - 2), Fin(0), Fin(1), PInf, NInf, NaN }

AllAttrs == {"g", "h", "Eb", "Elogb", "l", "u", "alpha"}

(* ------------------------------- state ------------------------------- *)
VARIABLES
    objs,        \* the objects this process creates
    cfg,         \* the hyperparameters its constructor calls pass
    fp,          \* how the floating-point bound evaluates: "finite" or "any"
    rng,         \* state of the process-wide numpy generator
    obj,         \* obj[i]: the attributes of object i
    pc,          \* position of the running call: "idle" when none runs
    cur,         \* the object the running (or last) call is on
    data,        \* the X of the running (or last) call
    update_beta, \* _update's update_beta argument
    it,          \* _update's loop index i
    elbo_old,    \* _update's elbo_old
    bound,       \* _update's elbo_new of the last convergence check
    step,        \* inner step of _update_ql / _update_qu (1-based)
    row,         \* k of _update_ql / d of _update_qu (1-based)
    tmp,         \* l_temp / u_temp
    outcome,     \* the last call: operation and how it ended
    term,        \* how the last run of _update ended
    calls,       \* number of fit/transform calls made
    log,         \* history: the calls so far, <<operation, object, argument>>
    trace,       \* history: phases run in the current outer iteration
    l0           \* history: l at the start of the current inner step

vars == <<objs, cfg, fp, rng, obj, pc, cur, data, update_beta, it, elbo_old,
          bound, step, row, tmp, outcome, term, calls, log, trace, l0>>

loopvars == <<update_beta, it, elbo_old, bound, step, row, tmp, trace, l0>>

NoHp == [K |-> 0, m |-> 0, num_steps |-> 0, max_iters |-> 0, tolerance |-> PInf,
         step_size |-> 0, c0 |-> 0, sigma |-> 0,
         random_state |-> [int |-> FALSE, v |-> 0]]

\* an object before __init__ has run
NoObj == [made |-> FALSE, attrs |-> {}, hp |-> NoHp, g |-> <<>>, h |-> <<>>,
          Eb |-> <<>>, Elogb |-> <<>>, l |-> <<>>, u |-> <<>>, alpha |-> <<>>]

NoOutcome == [op |-> "none", res |-> "none"]

InitWith(objset, cfgset, fpmode) ==
    /\ objs = objset
    /\ cfg \in cfgset
    /\ fp = fpmode
    /\ rng \in 0..(RngMod - 1)
    /\ obj = [i \in Names |-> NoObj]
    /\ pc = "idle"
    /\ cur = "A"
    /\ data = <<>>
    /\ update_beta = TRUE
    /\ it = 0
    /\ elbo_old = NInf
    /\ bound = NInf
    /\ step = 0
    /\ row = 0
    /\ tmp = <<>>
    /\ outcome = NoOutcome
    /\ term = "none"
    /\ calls = 0
    /\ log = <<>>
    /\ trace = <<>>
    /\ l0 = <<>>

(* ----------------------------- __init__ ------------------------------ *)
\* mutant of SeedOnConstruct: the constructor does not seed
SeedOnConstruct_NoSeed(rs, g0) == g0

\* __init__, lines 42-43: the generator after the constructor
SeedOnConstruct(rs, g0) == IF rs.int THEN SeedState(rs.v) ELSE g0

\* __init__ and _parse_kwargs
Construct(i, rs) ==
    /\ pc = "idle"
    /\ i \in objs
    /\ ~obj[i].made
    /\ obj' = [obj EXCEPT ![i] =
                 [NoObj EXCEPT !.made = TRUE,
                               !.hp = [K |-> cfg.K, m |-> cfg.m,
                                       num_steps |-> cfg.num_steps,
                                       max_iters |-> cfg.max_iters,
                                       tolerance |-> cfg.tolerance,
                                       step_size |-> cfg.step_size,
                                       c0 |-> cfg.c0, sigma |-> cfg.sigma,
                                       random_state |-> rs]]]
    /\ rng' = SeedOnConstruct(rs, rng)
    /\ log' = Append(log, <<"construct", i, rs>>)
    /\ UNCHANGED <<objs, cfg, fp, pc, cur, data, outcome, term, calls>>
    /\ UNCHANGED loopvars

(* -------------------------------- fit -------------------------------- *)
\* number of generator draws of _init_qbeta, _init_ql, _init_qu
NumDraws(V, D, K, m) == 2 * V * K + K * m + 1 + D * m

\* _init_qbeta(V), _init_ql(D), _init_qu(D) on object o, generator at s0
InitObj(o, s0, V, D) ==
    LET K == o.hp.K
        m == o.hp.m
        newg == GammaMat(s0, V, K)
        newh == GammaMat(Adv(s0, V * K), V, K)
        nrm == NormalMat(Adv(s0, 2 * V * K), K, m)
        shift == DrawUniform(Adv(s0, 2 * V * K + K * m), D)
        newl == [k \in 1..K |-> [j \in 1..m |-> nrm[k][j] + shift]]
        newu == NormalMat(Adv(s0, 2 * V * K + K * m + 1), D, m)
    IN  [o EXCEPT !.g = newg, !.h = newh,
                  !.Eb = ComputeEx(newg, newh),
                  !.Elogb = ComputeElogx(newg, newh),
                  !.l = newl, !.u = newu,
                  !.attrs = @ \cup {"g", "h", "Eb", "Elogb", "l", "u"}]

\* mutant of ElboOldInit: the loop starts from a bound of zero
ElboOldInit_Zero == Fin(0)

\* _update, line 97: elbo_old = -np.inf
ElboOldInit == NInf

\* mutant of LoopHead: one iteration too many
LoopHead_OffByOne(n, hp) == IF n <= hp.max_iters THEN "alpha" ELSE "idle"

\* _update, line 98: the for statement with loop index n
LoopHead(n, hp) == IF n < hp.max_iters THEN "alpha" ELSE "idle"

\* the phase after _update_alpha: _update_ql and _update_qu run no inner
\* step when num_steps = 0
AfterAlpha(hp, ub) ==
    IF hp.num_steps > 0 THEN "ql" ELSE IF ub THEN "beta" ELSE "check"

\* fit, lines 70-77, up to the first statement of _update's loop
Fit(i, XX) ==
    /\ pc = "idle"
    /\ i \in objs
    /\ obj[i].made
    /\ calls < MaxCalls
    /\ LET V == NRows(XX)
           D == NCols(XX)
           hp == obj[i].hp
       IN  /\ obj' = [obj EXCEPT ![i] = InitObj(@, rng, V, D)]
           /\ rng' = Adv(rng, NumDraws(V, D, hp.K, hp.m))
           /\ pc' = LoopHead(0, hp)
           /\ term' = IF LoopHead(0, hp) = "idle" THEN "MaxItersReached" ELSE "none"
           /\ outcome' = [op |-> "fit",
                          res |-> IF LoopHead(0, hp) = "idle"
                                  THEN "returned" ELSE "running"]
    /\ cur' = i
    /\ data' = XX
    /\ update_beta' = TRUE
    /\ it' = 0
    /\ elbo_old' = ElboOldInit
    /\ bound' = NInf
    /\ step' = 0
    /\ row' = 0
    /\ tmp' = <<>>
    /\ trace' = <<>>
    /\ l0' = <<>>
    /\ calls' = calls + 1
    /\ log' = Append(log, <<"fit", i, XX>>)
    /\ UNCHANGED <<objs, cfg, fp>>

(* ------------------------------ _update ------------------------------ *)
\* where the running call stands in the loops over k (line 136) and over d
\* (line 158): inside the loop, or past its last pass
InQlRows == pc = "ql" /\ row \in 1..obj[cur].hp.K
AfterQlRows == pc = "ql" /\ row = obj[cur].hp.K + 1
InQuRows == pc = "qu" /\ row \in 1..NCols(data)
AfterQuRows == pc = "qu" /\ row = NCols(data) + 1

\* _update_alpha(X), line 99, and the calls of _update_ql / _update_qu that
\* run no inner step.  (The print(self._bound(X)) statements of lines 100-108
\* read the attributes and assign nothing.)
UpdateAlpha ==
    /\ pc = "alpha"
    /\ LET o == obj[cur]
           nxt == AfterAlpha(o.hp, update_beta)
       IN  /\ obj' = [obj EXCEPT ![cur] =
                        [@ EXCEPT !.alpha = NewAlpha(o, data),
                                  !.attrs = @ \cup {"alpha"}]]
           /\ pc' = nxt
           /\ step' = IF nxt = "ql" THEN 1 ELSE 0
           /\ row' = IF nxt = "ql" THEN 1 ELSE 0
           /\ tmp' = IF nxt = "ql" THEN Zeros(o.hp.K, o.hp.m) ELSE <<>>
           /\ l0' = IF nxt = "ql" THEN o.l ELSE <<>>
           /\ trace' = IF nxt = "ql" THEN <<"alpha">> ELSE <<"alpha", "l", "u">>
    /\ UNCHANGED <<objs, cfg, fp, rng, cur, data, update_beta, it, elbo_old,
                   bound, outcome, term, calls, log>>

\* _update_ql, one pass of the loop over k (lines 136-148)
QlRow ==
    /\ InQlRows
    /\ tmp' = [tmp EXCEPT ![row] = NewRowL(obj[cur], data, tmp, row)]
    /\ row' = row + 1
    /\ UNCHANGED <<objs, cfg, fp, rng, obj, pc, cur, data, update_beta, it,
                   elbo_old, bound, step, outcome, term, calls, log, trace, l0>>

\* _update_ql, line 150 (self.l = l_temp), then the next inner step or the
\* call of _update_qu
QlAccept ==
    /\ AfterQlRows
    /\ obj' = [obj EXCEPT ![cur].l = tmp]
    /\ row' = 1
    /\ IF step < obj[cur].hp.num_steps
       THEN /\ step' = step + 1
            /\ tmp' = Zeros(obj[cur].hp.K, obj[cur].hp.m)
            /\ l0' = tmp
            /\ UNCHANGED <<pc, trace>>
       ELSE /\ step' = 1
            /\ pc' = "qu"
            /\ tmp' = Zeros(NCols(data), obj[cur].hp.m)
            /\ l0' = <<>>
            /\ trace' = Append(trace, "l")
    /\ UNCHANGED <<objs, cfg, fp, rng, cur, data, update_beta, it, elbo_old,
                   bound, outcome, term, calls, log>>

\* _update_qu, one pass of the loop over d (lines 158-167)
QuRow ==
    /\ InQuRows
    /\ tmp' = [tmp EXCEPT ![row] = NewRowU(obj[cur], data, row)]
    /\ row' = row + 1
    /\ UNCHANGED <<objs, cfg, fp, rng, obj, pc, cur, data, update_beta, it,
                   elbo_old, bound, step, outcome, term, calls, log, trace, l0>>

\* _update_qu, line 169 (self.u = u_temp), then the next inner step or the
\* beta update / convergence check
QuAccept ==
    /\ AfterQuRows
    /\ obj' = [obj EXCEPT ![cur].u = tmp]
    /\ IF step < obj[cur].hp.num_steps
       THEN /\ step' = step + 1
            /\ row' = 1
            /\ tmp' = Zeros(NCols(data), obj[cur].hp.m)
            /\ UNCHANGED <<pc, trace>>
       ELSE /\ step' = 0
            /\ row' = 0
            /\ tmp' = <<>>
            /\ pc' = IF update_beta THEN "beta" ELSE "check"
            /\ trace' = Append(trace, "u")
    /\ UNCHANGED <<objs, cfg, fp, rng, cur, data, update_beta, it, elbo_old,
                   bound, outcome, term, calls, log, l0>>

\* _update_beta(X), lines 106-107
UpdateBeta ==
    /\ pc = "beta"
    /\ obj' = [obj EXCEPT ![cur] = UpdateBetaObj(@, data)]
    /\ pc' = "check"
    /\ trace' = Append(trace, "beta")
    /\ UNCHANGED <<objs, cfg, fp, rng, cur, data, update_beta, it, elbo_old,
                   bound, step, row, tmp, outcome, term, calls, log, l0>>

\* line 111: chg = (elbo_new - elbo_old) / abs(elbo_old)
Change(new, old) == FDiv(FSub(new, old), FAbs(old))

\* mutant of StopEarly: the magnitude of the change is compared
StopEarly_Abs(new, old, tol) ==
    LET c == Change(new, old)
    IN  FLess(IF c.k = "ninf" THEN PInf
              ELSE IF c.k = "fin" THEN [c EXCEPT !.n = AbsI(c.n)] ELSE c, tol)

\* line 116: chg < self.tolerance
StopEarly(new, old, tol) == FLess(Change(new, old), tol)

\* the values line 110 may assign to elbo_new
ElboNew(o, XX, mode) == IF mode = "any" THEN BoundVals ELSE {Fin(Bound(o, XX))}

\* lines 110-119: the convergence test, then break or the next iteration
CheckConvergence ==
    /\ pc = "check"
    /\ \E b \in ElboNew(obj[cur], data, fp) :
         /\ bound' = b
         /\ IF StopEarly(b, elbo_old, obj[cur].hp.tolerance)
            THEN /\ pc' = "idle"
                 /\ term' = "Converged"
                 /\ outcome' = [outcome EXCEPT !.res = "returned"]
                 /\ UNCHANGED <<it, elbo_old>>
            ELSE /\ elbo_old' = b
                 /\ it' = it + 1
                 /\ pc' = LoopHead(it + 1, obj[cur].hp)
                 /\ term' = IF LoopHead(it + 1, obj[cur].hp) = "idle"
                            THEN "MaxItersReached" ELSE term
                 /\ outcome' = IF LoopHead(it + 1, obj[cur].hp) = "idle"
                               THEN [outcome EXCEPT !.res = "returned"]
                               ELSE outcome
    /\ trace' = <<>>
    /\ UNCHANGED <<objs, cfg, fp, rng, obj, cur, data, update_beta, step, row,
                   tmp, calls, log, l0>>

(* ----------------------------- transform ----------------------------- *)
\* mutant of TransformResult: the row-count test of line 86 is missing
TransformResult_NoDimCheck(o, XX) ==
    IF "Eb" \notin o.attrs THEN "ValueError: No beta initialized."
    ELSE "TypeError: _init_ql() missing 1 required positional argument: 'D'"

\* transform, lines 82-89: how the call ends.  Line 89 calls _init_ql()
\* without its parameter D, which raises TypeError before _init_ql runs.
TransformResult(o, XX) ==
    IF "Eb" \notin o.attrs THEN "ValueError: No beta initialized."
    ELSE IF NRows(o.Eb) # NRows(XX) THEN "ValueError: Feature dim mismatch."
    ELSE "TypeError: _init_ql() missing 1 required positional argument: 'D'"

\* transform(X, attr): every path raises before an attribute is assigned
Transform(i, XX) ==
    /\ pc = "idle"
    /\ i \in objs
    /\ obj[i].made
    /\ calls < MaxCalls
    /\ outcome' = [op |-> "transform", res |-> TransformResult(obj[i], XX)]
    /\ cur' = i
    /\ data' = XX
    /\ calls' = calls + 1
    /\ log' = Append(log, <<"transform", i, XX>>)
    /\ UNCHANGED <<objs, cfg, fp, rng, obj, pc, term>>
    /\ UNCHANGED loopvars

(* --------------------------- specifications -------------------------- *)
Step ==
    \/ UpdateAlpha
    \/ QlRow
    \/ QlAccept
    \/ QuRow
    \/ QuAccept
    \/ UpdateBeta
    \/ CheckConvergence

Next ==
    \/ \E i \in Names, rs \in RandomStates : Construct(i, rs)
    \/ \E i \in Names, XX \in XSet : Fit(i, XX)
    \/ \E i \in Names, XX \in XSet : Transform(i, XX)
    \/ Step

\* one object, every configuration, the bound evaluated by the model
Init == InitWith({"A"}, HyperSet, "finite")
Spec == Init /\ [][Next]_vars

\* two objects sharing the process-wide generator: K = 1 or 2, m = 1, one
\* inner step, no or two outer iterations, a finite tolerance
HyperSetDet ==
    {hp \in HyperSet : /\ hp.m = 1
                       /\ hp.num_steps = 1
                       /\ hp.max_iters \in {0, 2}
                       /\ hp.tolerance.k = "fin"}
InitDet == InitWith({"A", "B"}, HyperSetDet, "finite")
SpecDet == InitDet /\ [][Next]_vars

\* one object with m = 1, the bound any IEEE value
HyperSetLoop == {hp \in HyperSet : hp.m = 1}
InitLoop == InitWith({"A"}, HyperSetLoop, "any")
SpecLoop == InitLoop /\ [][Next]_vars

(* ============================== claims =============================== *)
NoBetaError == "ValueError: No beta initialized."
DimError == "ValueError: Feature dim mismatch."

\* the step is a call of transform
TransformCall == calls' = calls + 1 /\ outcome'.op = "transform"

\* C1 (as claimed): on an object on which fit has completed, transform with
\* an X of the fitted row count completes without raising.
C1_TransformCompletes ==
    (/\ outcome.op = "transform"
     /\ "Eb" \in obj[cur].attrs
     /\ NRows(obj[cur].Eb) = NRows(data))
    => outcome.res = "returned"

\* C2: a transform call that violates a precondition raises the matching
\* value error (no Eb: 'No beta initialized'; row count differs from the
\* fitted V: feature-dimension mismatch), no attribute of any object is
\* changed and the update loop is not entered.
C2_PreconditionErrors ==
    [][TransformCall =>
         LET o == obj[cur'] IN
         /\ ("Eb" \notin o.attrs) => outcome'.res = NoBetaError
         /\ ("Eb" \in o.attrs /\ NRows(o.Eb) # NRows(data'))
              => outcome'.res = DimError
         /\ (("Eb" \notin o.attrs) \/ NRows(o.Eb) # NRows(data'))
              => /\ obj' = obj
                 /\ pc' = "idle"
                 /\ UNCHANGED loopvars
                 /\ rng' = rng]_vars

\* C2 witness: a fitted object was given an X of another row count
C2_Witness ==
    /\ outcome.op = "transform"
    /\ outcome.res = DimError
    /\ "Eb" \in obj[cur].attrs
    /\ NRows(obj[cur].Eb) # NRows(data)

\* C5: whenever an object has Eb, its Eb and Elogb are the expectations of
\* its current g and h (Eb = g/h, Elogb = psi(g) - log(h)), in every state:
\* between the phases of the loop and after a call that raised.
C5_ExpectationsConsistent ==
    \A i \in Names :
        "Eb" \in obj[i].attrs =>
            /\ obj[i].Eb = ComputeEx(obj[i].g, obj[i].h)
            /\ obj[i].Elogb = ComputeElogx(obj[i].g, obj[i].h)

\* C5 witness: a beta update has just replaced g and h
C5_Witness ==
    /\ pc = "check"
    /\ trace = <<"alpha", "l", "u", "beta">>
    /\ it = 1

\* C6 (as claimed): after fit(X) returns, for every configuration with
\* K >= 1, m >= 1, num_steps >= 0 and max_iters >= 0, the object holds
\* g, h, Eb, Elogb, l, u and alpha, with g, h of shape (V, K), l (K, m),
\* u (D, m) and alpha of length D.
C6_FittedState ==
    (outcome = [op |-> "fit", res |-> "returned"]) =>
        LET o == obj[cur]
            V == NRows(data)
            D == NCols(data)
        IN  /\ o.attrs = AllAttrs
            /\ Shape(o.g) = <<V, o.hp.K>>
            /\ Shape(o.h) = <<V, o.hp.K>>
            /\ Shape(o.Eb) = <<V, o.hp.K>>
            /\ Shape(o.Elogb) = <<V, o.hp.K>>
            /\ Shape(o.l) = <<o.hp.K, o.hp.m>>
            /\ Shape(o.u) = <<D, o.hp.m>>
            /\ NRows(o.alpha) = D

\* the step is one pass of _update_ql's loop over k / _update_qu's loop over d
QlRowStep == InQlRows /\ row' = row + 1
QuRowStep == InQuRows /\ row' = row + 1
\* the step is _update_ql's assignment self.l = l_temp
QlAcceptStep == AfterQlRows /\ row' = 1

\* row k of l after one gradient step in which the prior term -l_k enters once
PriorOnceL(o, XX, k) ==
    LET lik == LikL(o, XX, Theta(o.alpha, o.l, o.u), k)
    IN  [j \in DOMAIN o.l[k] |->
            Fl(o.l[k][j] + o.hp.step_size * (DataGradL(lik, o.u)[j] - o.l[k][j]))]

\* row d of u after one gradient step in which the prior term -u_d enters once
PriorOnceU(o, XX, d) ==
    LET lik == LikU(o, XX, Theta(o.alpha, o.l, o.u), d)
    IN  [j \in DOMAIN o.u[d] |->
            Fl(o.u[d][j] + o.hp.step_size * (DataGradU(lik, o.l)[j] - o.u[d][j]))]

\* C9 (as claimed): in one inner gradient step row k of l becomes
\* l_k + step_size * (data_gradient_k - l_k) and row d of u becomes
\* u_d + step_size * (data_gradient_d - u_d): the prior term is subtracted
\* once, not once per summed (v, d) resp. (v, k) entry.
C9_PriorOnce ==
    [][/\ QlRowStep => tmp'[row] = PriorOnceL(obj[cur], data, row)
       /\ QuRowStep => tmp'[row] = PriorOnceU(obj[cur], data, row)]_vars

\* what the code computes instead: the prior term is subtracted once per
\* summed entry, V*D times for l_k and V*K times for u_d
C9_PriorPerEntry ==
    [][/\ QlRowStep =>
            LET o == obj[cur]
                lik == LikL(o, data, Theta(o.alpha, o.l, o.u), row)
            IN  tmp'[row] = [j \in DOMAIN o.l[row] |->
                    Fl(o.l[row][j] + o.hp.step_size
                        * (DataGradL(lik, o.u)[j]
                           - NRows(data) * NCols(data) * o.l[row][j]))]
       /\ QuRowStep =>
            LET o == obj[cur]
                lik == LikU(o, data, Theta(o.alpha, o.l, o.u), row)
            IN  tmp'[row] = [j \in DOMAIN o.u[row] |->
                    Fl(o.u[row][j] + o.hp.step_size
                        * (DataGradU(lik, o.l)[j]
                           - NRows(data) * o.hp.K * o.u[row][j]))]]_vars

\* row k of l_temp when theta is computed from the array src
RowFromL(o, XX, src, k) ==
    LET lik == LikL(o, XX, Theta(o.alpha, src, o.u), k)
        grad == GradL(lik, o.u, o.l[k])
    IN  [j \in DOMAIN o.l[k] |-> Fl(o.l[k][j] + o.hp.step_size * grad[j])]

\* l with the rows handled before k in this inner step already replaced
SequentialL(l, l_temp, k) == [r \in DOMAIN l |-> IF r < k THEN l_temp[r] ELSE l[r]]

\* C10 (as claimed): the theta of row k reflects the updates already applied
\* in the same inner step to the rows handled before k.
C10_SequentialTheta ==
    [][QlRowStep =>
         tmp'[row] = RowFromL(obj[cur], data,
                              SequentialL(obj[cur].l, tmp, row), row)]_vars

\* C10 (amended): the theta of row k is computed from l as it stood at the
\* start of the inner step (l is replaced only after all K rows); after the
\* rows l is the accepted l_temp; with num_steps = 0 the l update leaves l
\* unchanged.
C10_SnapshotTheta ==
    [][/\ QlRowStep => /\ tmp'[row] = RowFromL(obj[cur], data, l0, row)
                       /\ obj' = obj
       /\ QlAcceptStep => obj'[cur].l = tmp
       /\ (pc = "alpha" /\ obj[cur].hp.num_steps = 0)
            => /\ obj'[cur].l = obj[cur].l
               /\ pc' \in {"beta", "check"}]_vars

\* C10 witness: all K >= 2 rows of an inner step are done, and a row handled
\* before the last one was changed by it
C10_Witness ==
    /\ pc = "ql"
    /\ obj[cur].hp.K >= 2
    /\ row = obj[cur].hp.K + 1
    /\ tmp[1] # obj[cur].l[1]
    /\ l0 = obj[cur].l

\* position p of the call history is operation op on object i
IsCall(p, op, i) == log[p][1] = op /\ log[p][2] = i

\* the process made exactly four calls: A and B constructed with the same
\* integer random_state (and the same hyperparameters), each fit once on the
\* same X, at history positions ca < fa and cb < fb; the last fit returned
FourCalls(ca, fa, cb, fb) ==
    /\ pc = "idle"
    /\ Len(log) = 4
    /\ {ca, fa, cb, fb} = 1..4
    /\ ca < fa /\ cb < fb
    /\ IsCall(ca, "construct", "A") /\ IsCall(fa, "fit", "A")
    /\ IsCall(cb, "construct", "B") /\ IsCall(fb, "fit", "B")
    /\ obj["A"].hp = obj["B"].hp
    /\ obj["A"].hp.random_state.int
    /\ log[fa][3] = log[fb][3]

SameFit ==
    /\ obj["A"].l = obj["B"].l
    /\ obj["A"].u = obj["B"].u
    /\ obj["A"].g = obj["B"].g
    /\ obj["A"].h = obj["B"].h

\* C3 (as claimed): two objects constructed with the same integer
\* random_state and hyperparameters and fit on the same X end with identical
\* l, u, g, h, for every ordering of the four calls in which each object is
\* constructed before it is fit.
C3_DeterminismAnyOrder ==
    \A ca, fa, cb, fb \in 1..4 : FourCalls(ca, fa, cb, fb) => SameFit

\* C3 (amended): they end with identical l, u, g, h for the orderings in
\* which each object is fit directly after its own construction:
\* construct A, fit A, construct B, fit B, or the same with A and B exchanged.
C3_DeterminismFitAfterConstruct ==
    \A ca, fa, cb, fb \in 1..4 :
        (FourCalls(ca, fa, cb, fb) /\ fa = ca + 1 /\ fb = cb + 1) => SameFit

\* C3 witness: such a run, in which both fits ran the update loop
C3_Witness ==
    /\ FourCalls(1, 2, 3, 4)
    /\ obj["A"].hp.max_iters >= 1
    /\ "alpha" \in obj["A"].attrs
    /\ "alpha" \in obj["B"].attrs
    /\ SameFit

AllPhases == <<"alpha", "l", "u", "beta">>

\* C4: the first outer iteration never stops the loop early, whatever the
\* tolerance and whatever the first bound (finite, infinite or NaN); with
\* max_iters = 1 the loop runs exactly one full cycle of the alpha, l, u and
\* beta updates and then returns.
C4_FirstIterationNeverStops ==
    [][(pc = "check" /\ it = 0) =>
         /\ term' # "Converged"
         /\ it' = 1
         /\ elbo_old' = bound'
         /\ obj[cur].hp.max_iters = 1 =>
              /\ trace = (IF update_beta THEN AllPhases ELSE <<"alpha", "l", "u">>)
              /\ pc' = "idle"
              /\ term' = "MaxItersReached"
              /\ outcome' = [op |-> "fit", res |-> "returned"]]_vars

\* C4 witness: a run with max_iters = 1 and a tolerance above every change
\* whose only bound was not finite has returned after its one iteration
C4_Witness ==
    /\ pc = "idle"
    /\ outcome = [op |-> "fit", res |-> "returned"]
    /\ obj[cur].hp.max_iters = 1
    /\ obj[cur].hp.tolerance = PInf
    /\ it = 1
    /\ bound.k # "fin"
    /\ term = "MaxItersReached"

\* C7: every outer iteration runs its phases in the order alpha, l, u, beta
\* (beta iff update_beta), convergence check; alpha once per iteration and
\* first; at most max_iters iterations run; the loop ends Converged or
\* MaxItersReached, the call returning normally.
C7_PhaseOrder ==
    /\ pc \in {"idle", "alpha", "ql", "qu", "beta", "check"}
    /\ pc = "alpha" => trace = <<>>
    /\ pc = "ql" => trace = <<"alpha">>
    /\ pc = "qu" => trace = <<"alpha", "l">>
    /\ pc = "beta" => update_beta /\ trace = <<"alpha", "l", "u">>
    /\ pc = "check" =>
         trace = (IF update_beta THEN AllPhases ELSE <<"alpha", "l", "u">>)
    /\ pc # "idle" => it < obj[cur].hp.max_iters
    /\ it <= obj[cur].hp.max_iters
    /\ (pc = "idle" /\ outcome.op = "fit") =>
         /\ outcome.res = "returned"
         /\ term \in {"Converged", "MaxItersReached"}
         /\ term = "MaxItersReached" => it = obj[cur].hp.max_iters

C7_PhaseSteps ==
    /\ (pc = "alpha" /\ pc' # "alpha") =>
         /\ "alpha" \in obj'[cur].attrs
         /\ pc' = (IF obj[cur].hp.num_steps > 0 THEN "ql"
                   ELSE IF update_beta THEN "beta" ELSE "check")
    /\ (pc = "ql" /\ pc' # "ql") => pc' = "qu"
    /\ (pc = "qu" /\ pc' # "qu") => pc' = (IF update_beta THEN "beta" ELSE "check")
    /\ (pc = "beta" /\ pc' # "beta") => pc' = "check"
    /\ pc = "check" => pc' \in {"alpha", "idle"}
    /\ (pc # "idle" /\ pc' = "idle") => pc = "check"
    /\ (pc = "check" /\ pc' = "alpha") => it' = it + 1

\* position of the running call in the loop, ordered lexicographically
PhaseRank(p) ==
    CASE p = "alpha" -> 0 [] p = "ql" -> 1 [] p = "qu" -> 2 [] p = "beta" -> 3
      [] OTHER -> 4
LoopPos == <<it, PhaseRank(pc), step, row>>
LexLess(a, b) ==
    \E n \in 1..4 : a[n] < b[n] /\ \A q \in 1..(n - 1) : a[q] = b[q]

\* the loop is never stuck (one of the seven actions of Step is enabled) and
\* every step of it ends the call or moves to a later position; positions
\* are bounded, so the loop terminates
C7_Bounded ==
    pc # "idle" =>
        /\ pc \in {"alpha", "beta", "check"}
             \/ InQlRows \/ AfterQlRows \/ InQuRows \/ AfterQuRows
        /\ ElboNew(obj[cur], data, fp) # {}
        /\ step \in 0..obj[cur].hp.num_steps
        /\ row \in 0..(IF pc = "ql" THEN obj[cur].hp.K ELSE NCols(data)) + 1
C7_Progress ==
    pc # "idle" =>
        \/ pc' = "idle" /\ term' \in {"Converged", "MaxItersReached"}
        \/ LexLess(LoopPos, LoopPos')

C7_LoopRuns ==
    /\ [](C7_PhaseOrder /\ C7_Bounded)
    /\ [][C7_PhaseSteps /\ C7_Progress]_vars

\* C7 witness: a run of two full iterations that ended at the iteration cap
C7_Witness ==
    /\ pc = "idle"
    /\ outcome = [op |-> "fit", res |-> "returned"]
    /\ term = "MaxItersReached"
    /\ it = 2
    /\ obj[cur].hp.num_steps = 1

\* the relative change (new - old) / |old| is below tol
BelowTolerance(new, old, tol) == FLess(FDiv(FSub(new, old), FAbs(old)), tol)

\* C8: from the second iteration on the loop stops after iteration i exactly
\* when (bound_new - bound_old) / |bound_old| < tolerance, bound_old being
\* the bound of iteration i-1; a bound lower than the previous one stops the
\* loop as Converged too; otherwise bound_old becomes bound_new and the loop
\* goes on.
C8_StopRule ==
    [][(pc = "check" /\ it >= 1) =>
         /\ elbo_old = bound
         /\ IF BelowTolerance(bound', bound, obj[cur].hp.tolerance)
            THEN /\ pc' = "idle"
                 /\ term' = "Converged"
                 /\ outcome' = [op |-> "fit", res |-> "returned"]
            ELSE /\ term' # "Converged"
                 /\ elbo_old' = bound'
                 /\ it' = it + 1
                 /\ pc' = (IF it + 1 < obj[cur].hp.max_iters THEN "alpha" ELSE "idle")
         /\ (bound'.k = "fin" /\ bound.k = "fin" /\ bound'.n < bound.n)
              => term' = "Converged"]_vars

\* C8 witness: the second iteration's bound was lower than the first one's
\* and the loop stopped as Converged
C8_Witness ==
    /\ pc = "idle"
    /\ term = "Converged"
    /\ it = 1
    /\ bound.k = "fin" /\ elbo_old.k = "fin"
    /\ bound.n < elbo_old.n

====
